---- MODULE Spec2Model ----
(***************************************************************************)
(* WeatherDataManager (weather_station/data_manager.py): the in-memory     *)
(* snapshot cache, its foreground and background refreshes, and the        *)
(* thread-pool batch fetch.                                                *)
(*                                                                         *)
(* Spec       the manager: one request thread (the FastAPI event loop      *)
(*            runs the async handlers one at a time) calling               *)
(*            load_weather_data / refresh_cache, concurrently with the     *)
(*            background thread running _update_loop, under a clock.       *)
(* SpecBatch  one call of _fetch_data_in_batches at the level of its       *)
(*            pool workers, the shared dict and data_lock.                 *)
(* FairSpecBatch  SpecBatch with the pool's workers making progress.       *)
(* SpecPool   the ThreadPoolExecutor of one batch, by counts of calls.     *)
(* SpecFetch  one call of _fetch_live_weather_data, step by step.          *)
(* SpecApi    the HTTP handlers of index.py over the manager, one request  *)
(*            at a time.                                                   *)
(* SpecLoop   start_data_manager / stop_data_manager and the update loops  *)
(*            they start and stop; FairSpecLoop and FairSpecLoopClock add  *)
(*            progress of the loops, and of the clock.                     *)
(* SpecRef    the dict objects load_weather_data stores and returns.       *)
(* SpecUpdater  the batch updater script update_weather_information.py.    *)
(* SpecStatus get_status, the startup event and the weekly check of the     *)
(*            update loop, over _last_update_check and the cache.           *)
(* SpecApp    GET /api/data/weather of the simple app (app.py) with         *)
(*            WeatherAPI.get_weather_for_multiple_cities.                   *)
(***************************************************************************)
EXTENDS Integers, Sequences, FiniteSets, TLC

VARIABLES
    now,                \* time.time(), in seconds
    data_cache,         \* self._data_cache: None or Some(snapshot)
    cache_timestamp,    \* self._cache_timestamp
    last_update_check,  \* self._last_update_check
    pc,                 \* where each thread stands in its handler
    current_time,       \* each thread's local current_time
    batch_id,           \* each thread's batch fetch in flight (0: none)
    live_data,          \* each thread's local live_data / fresh_data
    found,              \* what each thread's staleness test met (history, for the properties)
    wake_at,            \* when the background thread's should_stop.wait(600) times out
    batch_seq,          \* number of batch fetches started so far (names the refresh cycles)
    last_return,        \* the most recent value returned by load_weather_data / refresh_cache
    b_locations,        \* SpecBatch: the locations argument
    b_outcome,          \* SpecBatch: what the provider answers for each location
    task,               \* SpecBatch: where each submitted fetch_location_data call stands
    data_lock,          \* SpecBatch: holders of data_lock
    b_seen,             \* SpecBatch: the dict contents a task read when it began its store
    b_live,             \* SpecBatch: the shared dict live_data
    b_result,           \* SpecBatch: None until the function returns, then Some(live_data)
    p_locations,        \* SpecPool: len(locations)
    p_submitted,        \* SpecPool: calls submitted so far
    p_threads,          \* SpecPool: worker threads the executor has started
    p_running,          \* SpecPool: calls a worker is executing
    p_done,             \* SpecPool: calls that have returned
    f_coordinates,      \* SpecFetch: the coordinates argument
    f_reply,            \* SpecFetch: what the provider does with the request
    f_pc,               \* SpecFetch: the line the call has reached
    f_request,          \* SpecFetch: None, or Some(latitude / longitude sent)
    f_data,             \* SpecFetch: the local data
    f_result,           \* SpecFetch: how the call ended and what it returned
    response,           \* SpecApi: the last JSONResponse sent
    n_requests,         \* SpecApi: requests handled so far
    data_manager,       \* SpecLoop: the global _data_manager (0: None)
    n_managers,           \* SpecLoop: WeatherDataManager objects created so far
    should_stop,        \* SpecLoop: each manager's should_stop event
    update_thread,      \* SpecLoop: each manager's update_thread (0: None)
    n_threads,            \* SpecLoop: update threads created so far
    main_pc,            \* SpecLoop: where the caller of start / stop stands
    loop_pc,            \* SpecLoop: where each update thread stands in _update_loop
    loop_manager,       \* SpecLoop: the manager each update thread belongs to
    loop_outcome,       \* SpecLoop: how each thread's latest cycle went
    loop_wait,          \* SpecLoop: the timeout of each thread's latest should_stop.wait
    loop_remaining,     \* SpecLoop: what is left of that timeout
    loop_checked,       \* SpecLoop: the thread tested staleness since it started or last woke
    started,            \* SpecLoop: start_background_updates returned on the manager since its last stop
    app_manager,        \* SpecLoop: WeatherStationApp.data_manager (0: no application yet)
    r_heap,             \* SpecRef: the dict objects allocated, by identity
    r_cache,            \* SpecRef: the object self._data_cache refers to (0: None)
    r_held,             \* SpecRef: the object the latest caller was returned (0: None)
    u_data,             \* SpecUpdater: the keys of geolocations.json
    u_outcome,          \* SpecUpdater: what the provider does for each city
    u_todo,             \* SpecUpdater: cities the loop has still to fetch
    u_output,           \* SpecUpdater: the dict output
    u_pc,               \* SpecUpdater: where the script stands
    u_file,             \* SpecUpdater: output_data.json: None, or Some(object written)
    status,             \* SpecStatus: the dict the latest get_status returned
    n_updates,          \* SpecStatus: runs of _perform_update so far
    update_result,      \* SpecStatus: what the latest _perform_update returned
    app_limit,          \* SpecApp: the limit query parameter of the request
    app_locations,      \* SpecApp: the locations file, as a sequence of entries
    app_pc,             \* SpecApp: where the handler stands
    app_i,              \* SpecApp: entries the for loop has gone through
    app_count,          \* SpecApp: get_weather_for_multiple_cities' count
    app_results,        \* SpecApp: len(results)
    app_requests,       \* SpecApp: provider requests issued by the call
    app_response        \* SpecApp: the handler's response

locals == <<current_time, batch_id, live_data, found>>
mvars == <<now, data_cache, cache_timestamp, last_update_check, pc, current_time,
           batch_id, live_data, found, wake_at, batch_seq, last_return>>
bvars == <<b_locations, b_outcome, task, data_lock, b_seen, b_live, b_result>>
vars == <<now, data_cache, cache_timestamp, last_update_check, pc, current_time,
          batch_id, live_data, found, wake_at, batch_seq, last_return,
          b_locations, b_outcome, task, data_lock, b_seen, b_live, b_result,
          p_locations, p_submitted, p_threads, p_running, p_done,
          f_coordinates, f_reply, f_pc, f_request, f_data, f_result,
          response, n_requests,
          data_manager, n_managers, should_stop, update_thread, n_threads, main_pc,
          loop_pc, loop_manager, loop_outcome, loop_wait, loop_remaining, loop_checked,
          started, app_manager,
          r_heap, r_cache, r_held,
          u_data, u_outcome, u_todo, u_output, u_pc, u_file,
          status, n_updates, update_result,
          app_limit, app_locations, app_pc, app_i, app_count, app_results,
          app_requests, app_response>>
pvars == <<p_locations, p_submitted, p_threads, p_running, p_done>>
fvars == <<f_coordinates, f_reply, f_pc, f_request, f_data, f_result>>
avars == <<response, n_requests>>
lvars == <<data_manager, n_managers, should_stop, update_thread, n_threads, main_pc,
           loop_pc, loop_manager, loop_outcome, loop_wait, loop_remaining, loop_checked,
           started, app_manager>>
rvars == <<r_heap, r_cache, r_held>>
uvars == <<u_data, u_outcome, u_todo, u_output, u_pc, u_file>>
svars == <<status, n_updates, update_result>>
wvars == <<app_limit, app_locations, app_pc, app_i, app_count, app_results,
           app_requests, app_response>>
nvars == <<svars, wvars>>
xvars == <<lvars, rvars, uvars, nvars>>

---------------------------------------------------------------------------
(* Bounds of the model *)

Tick == 150             \* granularity of the clock, seconds
MaxTicks == 7           \* the clock stops after this many ticks
MaxBatches == 3         \* at most this many batch fetches are started
MaxRequests == 4        \* SpecApi: at most this many requests are handled
MaxLen == 2             \* SpecFetch: the longest hourly series of a provider body
MaxLocations == 12      \* SpecPool: the most locations a batch is given
MaxManagers == 2        \* SpecLoop: at most this many managers are constructed
MaxThreads == 2         \* SpecLoop: at most this many update threads are created
WaitTick == 300         \* SpecLoop: granularity of the time spent waiting, seconds
MaxObjects == 2         \* SpecRef: at most this many dict objects are allocated
StatusShortTick == 450  \* SpecStatus: the short step of the clock, seconds
MaxShortTicks == 3      \* SpecStatus: short steps between two long ones
MaxLongTicks == 3       \* SpecStatus: long steps (half an update interval each)
MaxAppLocations == 3    \* SpecApp: the most entries of the locations file
LimitMargin == 3        \* SpecApp: limits are drawn this far around the two ends of the range

(* Program constants *)

DATA_UPDATE_INTERVAL == 604800  \* config.DATA_UPDATE_INTERVAL
CACHE_SECONDS == 900            \* load_weather_data: 15 minutes cache
BG_REFRESH_SECONDS == 600       \* _update_loop: refresh when older than 10 minutes
LOOP_WAIT_SECONDS == 600        \* _update_loop: should_stop.wait(600)
max_workers == 10               \* ThreadPoolExecutor(max_workers=10)
ERROR_WAIT_SECONDS == 300       \* _update_loop: should_stop.wait(300) after an error
FRESH_MINUTES == 15             \* get_status: 'cache_fresh': cache_age_minutes < 15
LIMIT_MIN == 1                  \* app.get_weather_data: max(1, ...)
LIMIT_MAX == 100                \* app.get_weather_data: min(limit, 100)

\* time.time() when the manager is constructed: the epoch clock is far past
\* one update interval, so the first should_update_data() answers True.
StartTime == DATA_UPDATE_INTERVAL
EndTime == StartTime + MaxTicks * Tick

Locations == {"Paris", "Oslo"}              \* the keys of geolocations.json
BatchLocations == {"Paris", "Oslo", "Lima"} \* the largest locations argument of SpecBatch
Threads == {"http", "bg"}

\* What the provider does for one location's request.
\*   ok          200 with a JSON body holding data
\*   empty       200 with an empty JSON object (falsy in Python)
\*   timeout     requests.get raises after timeout=10
\*   http_error  raise_for_status() raises
Outcomes == {"ok", "empty", "timeout", "http_error"}
\* The outcomes the manager's specification draws from: for the manager only
\* whether a location's fetch yields a record matters.
ManagerOutcomes == {"ok", "timeout"}

None == <<>>
Some(x) == <<x>>
EmptyDict == [l \in {} |-> 0]

---------------------------------------------------------------------------
(* Data *)

\* A refresh cycle: the n-th batch fetch, which fetched the locations `got`.
Cycle(n, got) == [id |-> n, got |-> got]

\* The record _fetch_live_weather_data returns for city in a cycle.
Rec(city, cycle) == [city |-> city, cycle |-> cycle]

\* _fetch_live_weather_data: the response body, or None on any exception.
FetchLiveNoStatusCheck(city, outcome, cycle) ==
    CASE outcome \in {"ok", "http_error"} -> Some(Rec(city, cycle))
      [] outcome = "empty" -> Some(EmptyDict)
      [] OTHER -> None
FetchLive(city, outcome, cycle) ==
    CASE outcome = "ok" -> Some(Rec(city, cycle))
      [] outcome = "empty" -> Some(EmptyDict)
      [] OTHER -> None

\* fetch_location_data's test `if data:`: a record that is neither None nor empty.
Truthy(data) == data # None /\ data # Some(EmptyDict)

\* The locations a batch stores: those whose fetch returned truthy data.
Stored(locs, oc) == {l \in locs : Truthy(FetchLive(l, oc[l], 0))}

\* _fetch_data_in_batches, as its callers see it: the dict it returns.
FetchDataInBatches(locs, oc, n) ==
    LET got == Stored(locs, oc)
    IN  [l \in got |-> Rec(l, Cycle(n, got))]

\* _load_locations: the file's mapping, or {} when it cannot be read or parsed.
LoadLocations(file_ok) == IF file_ok THEN Locations ELSE {}

\* The cache after `if live_data: self._data_cache = live_data` (and nothing in
\* the else branch).
NextCacheStoresEmpty(old, fresh) == Some(fresh)
NextCacheCleared(old, fresh) == IF DOMAIN fresh # {} THEN Some(fresh) ELSE None
NextCacheMerged(old, fresh) ==
    IF DOMAIN fresh = {} THEN old
    ELSE IF old = None THEN Some(fresh)
    ELSE Some([l \in DOMAIN old[1] \cup DOMAIN fresh |->
                  IF l \in DOMAIN fresh THEN fresh[l] ELSE old[1][l]])
NextCache(old, fresh) == IF DOMAIN fresh # {} THEN Some(fresh) ELSE old

\* load_weather_data's freshness test.
IsFreshWithin10(cache, ts, t) == cache # None /\ t - ts < BG_REFRESH_SECONDS
IsFresh(cache, ts, t) == cache # None /\ t - ts < CACHE_SECONDS

\* _update_loop's staleness test.
BgIsStaleAlways(cache, ts, t) == cache # None
BgIsStaleOrEmpty(cache, ts, t) == cache = None \/ t - ts > BG_REFRESH_SECONDS
BgIsStale(cache, ts, t) == cache # None /\ t - ts > BG_REFRESH_SECONDS

\* should_update_data's test.
NeedsUpdate(t, luc) == t - luc >= DATA_UPDATE_INTERVAL

\* get_weather_data (index.py): the JSONResponse for what load_weather_data
\* returned: 404 for None, else the mapping under "data".
get_weather_data(data) ==
    IF data = None THEN [status_code |-> 404, data |-> None]
    ELSE [status_code |-> 200, data |-> data]

Returned(op, val, ok) == [op |-> op, val |-> val, ok |-> ok]

InFetch(t) == pc[t] \in {"load_fetch", "refresh_fetch", "bg_fetch"}

\* A thread has stored its mapping in the cache and not yet set the timestamp.
MidPublication == \E u \in Threads : pc[u] \in {"load_stamp", "refresh_stamp", "bg_stamp"}

\* What a staleness test meets: no snapshot; a timestamp within the 15-minute
\* window; a snapshot that has outlived the window; or ("torn") an outdated
\* timestamp beside a snapshot whose own timestamp is not written yet.
Met(cache, ts, t) ==
    IF cache = None THEN "empty"
    ELSE IF t - ts < CACHE_SECONDS THEN "fresh"
    ELSE IF MidPublication THEN "torn" ELSE "stale"

---------------------------------------------------------------------------
(* The manager *)

InitManager ==
    /\ now = StartTime
    /\ data_cache = None
    /\ cache_timestamp = 0
    /\ last_update_check = 0
    /\ pc = [t \in Threads |-> IF t = "bg" THEN "none" ELSE "idle"]
    /\ current_time = [t \in Threads |-> 0]
    /\ batch_id = [t \in Threads |-> 0]
    /\ live_data = [t \in Threads |-> EmptyDict]
    /\ found = [t \in Threads |-> "none"]
    /\ wake_at = 0
    /\ batch_seq = 0
    /\ last_return = Returned("none", None, FALSE)

\* No batch is modelled at the level of its workers.
InitNoBatch ==
    /\ b_locations = {}
    /\ b_outcome = EmptyDict
    /\ task = EmptyDict
    /\ data_lock = {}
    /\ b_seen = EmptyDict
    /\ b_live = EmptyDict
    /\ b_result = None

\* No pool is modelled by its counts.
InitNoPool ==
    /\ p_locations = 0
    /\ p_submitted = 0
    /\ p_threads = 0
    /\ p_running = 0
    /\ p_done = 0

\* No single-location fetch is modelled step by step.
InitNoFetch ==
    /\ f_coordinates = None
    /\ f_reply = None
    /\ f_pc = "none"
    /\ f_request = None
    /\ f_data = None
    /\ f_result = None

\* No request has been handled.
InitNoApi ==
    /\ response = None
    /\ n_requests = 0

\* The module has just been imported: no manager, no update thread.
InitLoop ==
    /\ data_manager = 0
    /\ n_managers = 0
    /\ should_stop = [m \in 1..MaxManagers |-> FALSE]
    /\ update_thread = [m \in 1..MaxManagers |-> 0]
    /\ n_threads = 0
    /\ main_pc = "idle"
    /\ loop_pc = [t \in 1..MaxThreads |-> "unborn"]
    /\ loop_manager = [t \in 1..MaxThreads |-> 0]
    /\ loop_outcome = [t \in 1..MaxThreads |-> "none"]
    /\ loop_wait = [t \in 1..MaxThreads |-> 0]
    /\ loop_remaining = [t \in 1..MaxThreads |-> 0]
    /\ loop_checked = [t \in 1..MaxThreads |-> FALSE]
    /\ started = [m \in 1..MaxManagers |-> FALSE]
    /\ app_manager = 0

\* No dict object exists yet: the cache is None and no caller holds anything.
InitRef ==
    /\ r_heap = <<>>
    /\ r_cache = 0
    /\ r_held = 0

\* The batch updater script is not run.
InitNoUpdater ==
    /\ u_data = {}
    /\ u_outcome = <<>>
    /\ u_todo = {}
    /\ u_output = <<>>
    /\ u_pc = "none"
    /\ u_file = None

\* get_status has not been called and _perform_update has not run.
InitStatus ==
    /\ status = None
    /\ n_updates = 0
    /\ update_result = "none"

\* The simple app handles no request.
InitNoApp ==
    /\ app_limit = 0
    /\ app_locations = <<>>
    /\ app_pc = "none"
    /\ app_i = 0
    /\ app_count = 0
    /\ app_results = 0
    /\ app_requests = 0
    /\ app_response = None

InitNoExtra == InitLoop /\ InitRef /\ InitNoUpdater /\ InitStatus /\ InitNoApp

Init == InitManager /\ InitNoBatch /\ InitNoPool /\ InitNoFetch /\ InitNoApi /\ InitNoExtra

\* The clock advances.
TickClock ==
    /\ now < EndTime
    /\ now' = now + Tick
    /\ UNCHANGED <<data_cache, cache_timestamp, last_update_check, pc, locals,
                   wake_at, batch_seq, last_return>>
    /\ UNCHANGED <<bvars, pvars, fvars, avars, xvars>>

\* A thread reads the clock into current_time and submits a batch fetch: the
\* next refresh cycle begins.
StartBatch(t, at, ct, met) ==
    /\ batch_seq < MaxBatches
    /\ batch_seq' = batch_seq + 1
    /\ batch_id' = [batch_id EXCEPT ![t] = batch_seq + 1]
    /\ current_time' = [current_time EXCEPT ![t] = ct]
    /\ found' = [found EXCEPT ![t] = met]
    /\ pc' = [pc EXCEPT ![t] = at]
    /\ UNCHANGED live_data

\* A thread's call is over: its locals are gone.
ClearLocals(t) ==
    /\ current_time' = [current_time EXCEPT ![t] = 0]
    /\ batch_id' = [batch_id EXCEPT ![t] = 0]
    /\ live_data' = [live_data EXCEPT ![t] = EmptyDict]
    /\ found' = [found EXCEPT ![t] = "none"]

StoreFetchedAlways(t, fresh, at) ==
    /\ data_cache' = NextCache(data_cache, fresh)
    /\ live_data' = [live_data EXCEPT ![t] = fresh]
    /\ batch_id' = [batch_id EXCEPT ![t] = 0]
    /\ pc' = [pc EXCEPT ![t] = at]
    /\ UNCHANGED <<current_time, found>>

\* The batch fetch of thread t returns `fresh`: lines 231-235, 201-203, 78-80.
\* A non-empty result is stored in the cache and kept for the rest of the call.
StoreFetched(t, fresh, at) ==
    /\ data_cache' = NextCache(data_cache, fresh)
    /\ DOMAIN fresh # {}
    /\ live_data' = [live_data EXCEPT ![t] = fresh]
    /\ batch_id' = [batch_id EXCEPT ![t] = 0]
    /\ pc' = [pc EXCEPT ![t] = at]
    /\ UNCHANGED <<current_time, found>>

\* load_weather_data, lines 216-231: the freshness test; then either the cached
\* branch, or _load_locations and the start of the batch fetch.
LoadCheck(t) ==
    /\ pc[t] = "idle"
    /\ IF IsFresh(data_cache, cache_timestamp, now)
       THEN /\ pc' = [pc EXCEPT ![t] = "load_cached"]
            /\ UNCHANGED <<locals, batch_seq, last_return>>
       ELSE \E file_ok \in BOOLEAN :
              IF LoadLocations(file_ok) = {}
              THEN /\ last_return' = Returned("load", None, FALSE)
                   /\ UNCHANGED <<pc, locals, batch_seq>>
              ELSE /\ StartBatch(t, "load_fetch", now, Met(data_cache, cache_timestamp, now))
                   /\ UNCHANGED last_return
    /\ UNCHANGED <<now, data_cache, cache_timestamp, last_update_check, wake_at>>
    /\ UNCHANGED <<bvars, pvars, fvars, avars, xvars>>

\* load_weather_data, lines 219-220: `return self._data_cache`, read again after
\* the test.
LoadReturnCached(t) ==
    /\ pc[t] = "load_cached"
    /\ last_return' = Returned("load", data_cache, TRUE)
    /\ pc' = [pc EXCEPT ![t] = "idle"]
    /\ UNCHANGED <<now, data_cache, cache_timestamp, last_update_check, locals,
                   wake_at, batch_seq>>
    /\ UNCHANGED <<bvars, pvars, fvars, avars, xvars>>

\* load_weather_data, lines 231-235 and 239-241: the batch fetch returns; a
\* non-empty result is stored in the cache, an empty one makes the call return
\* None.
LoadFetched(t) ==
    /\ pc[t] = "load_fetch"
    /\ \E oc \in [Locations -> ManagerOutcomes] :
         LET live == FetchDataInBatches(Locations, oc, batch_id[t])
         IN  \/ /\ StoreFetched(t, live, "load_stamp")
                /\ UNCHANGED last_return
             \/ /\ DOMAIN live = {}
                /\ data_cache' = NextCache(data_cache, live)
                /\ ClearLocals(t)
                /\ pc' = [pc EXCEPT ![t] = "idle"]
                /\ last_return' = Returned("load", None, FALSE)
    /\ UNCHANGED <<now, cache_timestamp, last_update_check, wake_at, batch_seq>>
    /\ UNCHANGED <<bvars, pvars, fvars, avars, xvars>>

\* load_weather_data, lines 236-238: the timestamp is set to the time read before
\* the fetch, and the fetched dict is returned.
LoadStamp(t) ==
    /\ pc[t] = "load_stamp"
    /\ cache_timestamp' = current_time[t]
    /\ last_return' = Returned("load", Some(live_data[t]), TRUE)
    /\ ClearLocals(t)
    /\ pc' = [pc EXCEPT ![t] = "idle"]
    /\ UNCHANGED <<now, data_cache, last_update_check, wake_at, batch_seq>>
    /\ UNCHANGED <<bvars, pvars, fvars, avars, xvars>>

RefreshStartStampsOnNoLocations(t) ==
    /\ pc[t] = "idle"
    /\ \E file_ok \in BOOLEAN :
         IF LoadLocations(file_ok) = {}
         THEN /\ last_return' = Returned("refresh", None, FALSE)
              /\ cache_timestamp' = now
              /\ UNCHANGED <<pc, locals, batch_seq>>
         ELSE /\ StartBatch(t, "refresh_fetch", 0, "none")
              /\ UNCHANGED <<last_return, cache_timestamp>>
    /\ UNCHANGED <<now, data_cache, last_update_check, wake_at>>
    /\ UNCHANGED <<bvars, pvars, fvars, avars, xvars>>

\* refresh_cache, lines 197-201: _load_locations and the start of the batch
\* fetch; no clock is read and no freshness is tested.
RefreshStart(t) ==
    /\ pc[t] = "idle"
    /\ \E file_ok \in BOOLEAN :
         IF LoadLocations(file_ok) = {}
         THEN /\ last_return' = Returned("refresh", None, FALSE)
              /\ UNCHANGED <<pc, locals, batch_seq>>
         ELSE /\ StartBatch(t, "refresh_fetch", 0, "none")
              /\ UNCHANGED last_return
    /\ UNCHANGED <<now, data_cache, cache_timestamp, last_update_check, wake_at>>
    /\ UNCHANGED <<bvars, pvars, fvars, avars, xvars>>

\* refresh_cache, lines 201-203 and 207.
RefreshFetched(t) ==
    /\ pc[t] = "refresh_fetch"
    /\ \E oc \in [Locations -> ManagerOutcomes] :
         LET fresh == FetchDataInBatches(Locations, oc, batch_id[t])
         IN  \/ /\ StoreFetched(t, fresh, "refresh_stamp")
                /\ UNCHANGED last_return
             \/ /\ DOMAIN fresh = {}
                /\ data_cache' = NextCache(data_cache, fresh)
                /\ ClearLocals(t)
                /\ pc' = [pc EXCEPT ![t] = "idle"]
                /\ last_return' = Returned("refresh", None, FALSE)
    /\ UNCHANGED <<now, cache_timestamp, last_update_check, wake_at, batch_seq>>
    /\ UNCHANGED <<bvars, pvars, fvars, avars, xvars>>

\* refresh_cache, lines 204-206: the timestamp is time.time() after the fetch.
RefreshStamp(t) ==
    /\ pc[t] = "refresh_stamp"
    /\ cache_timestamp' = now
    /\ last_return' = Returned("refresh", None, TRUE)
    /\ ClearLocals(t)
    /\ pc' = [pc EXCEPT ![t] = "idle"]
    /\ UNCHANGED <<now, data_cache, last_update_check, wake_at, batch_seq>>
    /\ UNCHANGED <<bvars, pvars, fvars, avars, xvars>>

\* start_background_updates, lines 36-47, with AUTO_UPDATE_ENABLED (the default):
\* the thread is created unless one is alive.
StartBackgroundUpdates ==
    /\ pc["bg"] = "none"
    /\ pc' = [pc EXCEPT !["bg"] = "startup"]
    /\ UNCHANGED <<now, data_cache, cache_timestamp, last_update_check, locals,
                   wake_at, batch_seq, last_return>>
    /\ UNCHANGED <<bvars, pvars, fvars, avars, xvars>>

\* should_update_data, lines 98-108, followed by its caller's _perform_update
\* when it answers True: the script run changes nothing of the manager.
ShouldUpdateData ==
    last_update_check' =
        IF NeedsUpdate(now, last_update_check) THEN now ELSE last_update_check

BgStartupInvalidates ==
    /\ pc["bg"] = "startup"
    /\ ShouldUpdateData
    /\ cache_timestamp' = IF NeedsUpdate(now, last_update_check) THEN 0 ELSE cache_timestamp
    /\ pc' = [pc EXCEPT !["bg"] = "top"]
    /\ UNCHANGED <<now, data_cache, locals, wake_at, batch_seq, last_return>>
    /\ UNCHANGED <<bvars, pvars, fvars, avars, xvars>>

\* _update_loop, lines 59-61: the check on startup.
BgStartup ==
    /\ pc["bg"] = "startup"
    /\ ShouldUpdateData
    /\ pc' = [pc EXCEPT !["bg"] = "top"]
    /\ UNCHANGED <<now, data_cache, cache_timestamp, locals, wake_at, batch_seq,
                   last_return>>
    /\ UNCHANGED <<bvars, pvars, fvars, avars, xvars>>

\* _update_loop, lines 63-68: the loop test (should_stop is not set) and the
\* scheduled instance update.
BgUpdateCheck ==
    /\ pc["bg"] = "top"
    /\ ShouldUpdateData
    /\ pc' = [pc EXCEPT !["bg"] = "stale_check"]
    /\ UNCHANGED <<now, data_cache, cache_timestamp, locals, wake_at, batch_seq,
                   last_return>>
    /\ UNCHANGED <<bvars, pvars, fvars, avars, xvars>>

\* The background thread enters should_stop.wait(600), line 87.
BgWait ==
    /\ pc' = [pc EXCEPT !["bg"] = "wait"]
    /\ wake_at' = now + LOOP_WAIT_SECONDS
    /\ ClearLocals("bg")

\* _update_loop, lines 71-78: the staleness test; then _load_locations and the
\* start of the batch fetch, or straight to the wait.
BgStaleCheck ==
    /\ pc["bg"] = "stale_check"
    /\ IF BgIsStale(data_cache, cache_timestamp, now)
       THEN \E file_ok \in BOOLEAN :
              IF LoadLocations(file_ok) = {}
              THEN /\ BgWait
                   /\ UNCHANGED batch_seq
              ELSE /\ StartBatch("bg", "bg_fetch", now, Met(data_cache, cache_timestamp, now))
                   /\ UNCHANGED wake_at
       ELSE /\ BgWait
            /\ UNCHANGED batch_seq
    /\ UNCHANGED <<now, data_cache, cache_timestamp, last_update_check, last_return>>
    /\ UNCHANGED <<bvars, pvars, fvars, avars, xvars>>

\* _update_loop, lines 78-80: the batch fetch returns; a non-empty result is
\* stored in the cache, an empty one leads to the wait.
BgFetched ==
    /\ pc["bg"] = "bg_fetch"
    /\ \E oc \in [Locations -> ManagerOutcomes] :
         LET fresh == FetchDataInBatches(Locations, oc, batch_id["bg"])
         IN  \/ /\ StoreFetched("bg", fresh, "bg_stamp")
                /\ UNCHANGED wake_at
             \/ /\ DOMAIN fresh = {}
                /\ data_cache' = NextCache(data_cache, fresh)
                /\ BgWait
    /\ UNCHANGED <<now, cache_timestamp, last_update_check, batch_seq, last_return>>
    /\ UNCHANGED <<bvars, pvars, fvars, avars, xvars>>

\* _update_loop, lines 81-87: the timestamp is set to the time read before the
\* fetch; then the wait.
BgStamp ==
    /\ pc["bg"] = "bg_stamp"
    /\ cache_timestamp' = current_time["bg"]
    /\ BgWait
    /\ UNCHANGED <<now, data_cache, last_update_check, batch_seq, last_return>>
    /\ UNCHANGED <<bvars, pvars, fvars, avars, xvars>>

\* should_stop.wait(600) times out and the loop goes round.
BgWake ==
    /\ pc["bg"] = "wait"
    /\ now >= wake_at
    /\ pc' = [pc EXCEPT !["bg"] = "top"]
    /\ wake_at' = 0
    /\ UNCHANGED <<now, data_cache, cache_timestamp, last_update_check, locals,
                   batch_seq, last_return>>
    /\ UNCHANGED <<bvars, pvars, fvars, avars, xvars>>

Next ==
    \/ TickClock
    \/ LoadCheck("http")
    \/ LoadReturnCached("http")
    \/ LoadFetched("http")
    \/ LoadStamp("http")
    \/ RefreshStart("http")
    \/ RefreshFetched("http")
    \/ RefreshStamp("http")
    \/ StartBackgroundUpdates
    \/ BgStartup
    \/ BgUpdateCheck
    \/ BgStaleCheck
    \/ BgFetched
    \/ BgStamp
    \/ BgWake

Spec == Init /\ [][Next]_vars

---------------------------------------------------------------------------
(* _fetch_data_in_batches at the level of its workers *)

\* The cycle of the one batch SpecBatch runs.
BatchCycle == Cycle(1, Stored(b_locations, b_outcome))

\* `with data_lock:` a worker enters only when no other holds the lock.
CanAcquireUnlocked(holders) == TRUE
CanAcquire(holders) == holders = {}

\* The pool runs at most max_workers submitted calls at a time.
Running == {l \in b_locations : task[l] \in {"fetching", "want_lock", "storing"}}

\* Lines 252-253 and 269-270: an empty dict, a free lock, one submitted call
\* per item of locations; the locations and the provider's answers are any.
InitBatch ==
    /\ InitManager
    /\ b_locations \in SUBSET BatchLocations
    /\ b_outcome \in [b_locations -> Outcomes]
    /\ task = [l \in b_locations |-> "submitted"]
    /\ data_lock = {}
    /\ b_seen = [l \in b_locations |-> EmptyDict]
    /\ b_live = EmptyDict
    /\ b_result = None
    /\ InitNoPool /\ InitNoFetch /\ InitNoApi /\ InitNoExtra

\* A pool worker takes a submitted call and enters _fetch_live_weather_data.
TaskStart(l) ==
    /\ task[l] = "submitted"
    /\ Cardinality(Running) < max_workers
    /\ task' = [task EXCEPT ![l] = "fetching"]
    /\ UNCHANGED <<b_locations, b_outcome, data_lock, b_seen, b_live, b_result>>
    /\ UNCHANGED <<mvars, pvars, fvars, avars, xvars>>

\* fetch_location_data, lines 258-259 and 263: the fetch returns; falsy data
\* makes the call return False.
TaskFetched(l) ==
    /\ task[l] = "fetching"
    /\ task' = [task EXCEPT ![l] =
                  IF Truthy(FetchLive(l, b_outcome[l], BatchCycle))
                  THEN "want_lock" ELSE "done_false"]
    /\ UNCHANGED <<b_locations, b_outcome, data_lock, b_seen, b_live, b_result>>
    /\ UNCHANGED <<mvars, pvars, fvars, avars, xvars>>

\* fetch_location_data, lines 260-261: the lock is taken and the store into the
\* dict begins by reading the dict.
TaskLock(l) ==
    /\ task[l] = "want_lock"
    /\ CanAcquire(data_lock)
    /\ data_lock' = data_lock \cup {l}
    /\ b_seen' = [b_seen EXCEPT ![l] = b_live]
    /\ task' = [task EXCEPT ![l] = "storing"]
    /\ UNCHANGED <<b_locations, b_outcome, b_live, b_result>>
    /\ UNCHANGED <<mvars, pvars, fvars, avars, xvars>>

TaskStoreKeepsLock(l) ==
    /\ task[l] = "storing"
    /\ b_live' = [k \in DOMAIN b_seen[l] \cup {l} |->
                    IF k = l THEN FetchLive(l, b_outcome[l], BatchCycle)[1]
                    ELSE b_seen[l][k]]
    /\ b_seen' = [b_seen EXCEPT ![l] = EmptyDict]
    /\ task' = [task EXCEPT ![l] = "done_true"]
    /\ UNCHANGED <<b_locations, b_outcome, b_result, data_lock>>
    /\ UNCHANGED <<mvars, pvars, fvars, avars, xvars>>

\* fetch_location_data, lines 261-262: the store completes, the lock is released
\* and the call returns True.
TaskStore(l) ==
    /\ task[l] = "storing"
    /\ b_live' = [k \in DOMAIN b_seen[l] \cup {l} |->
                    IF k = l THEN FetchLive(l, b_outcome[l], BatchCycle)[1]
                    ELSE b_seen[l][k]]
    /\ data_lock' = data_lock \ {l}
    /\ b_seen' = [b_seen EXCEPT ![l] = EmptyDict]
    /\ task' = [task EXCEPT ![l] = "done_true"]
    /\ UNCHANGED <<b_locations, b_outcome, b_result>>
    /\ UNCHANGED <<mvars, pvars, fvars, avars, xvars>>

\* Lines 274-279: every future has completed, the pool is shut down and the dict
\* is returned.
BatchReturn ==
    /\ b_result = None
    /\ \A l \in b_locations : task[l] \in {"done_true", "done_false"}
    /\ b_result' = Some(b_live)
    /\ UNCHANGED <<b_locations, b_outcome, task, data_lock, b_seen, b_live>>
    /\ UNCHANGED <<mvars, pvars, fvars, avars, xvars>>

NextBatch ==
    \/ \E l \in b_locations : TaskStart(l)
    \/ \E l \in b_locations : TaskFetched(l)
    \/ \E l \in b_locations : TaskLock(l)
    \/ \E l \in b_locations : TaskStore(l)
    \/ BatchReturn

SpecBatch == InitBatch /\ [][NextBatch]_vars

\* The pool's worker threads run: a call that can take its next step takes it
\* (each single-location fetch ends, by its answer or by its timeout).
FairSpecBatch == SpecBatch /\ WF_vars(NextBatch)

---------------------------------------------------------------------------
(* The ThreadPoolExecutor of one batch, by counts *)

\* Calls submitted and not yet taken by a worker.
Queued == p_submitted - p_running - p_done

\* ThreadPoolExecutor(max_workers=10): the executor starts no further worker
\* thread once it has max_workers of them.
ThreadLimitNever(threads) == FALSE
ThreadLimitReached(threads) == threads >= max_workers

\* Lines 269-270: an executor with no thread yet; locations is of any size.
InitPool ==
    /\ InitManager /\ InitNoBatch /\ InitNoFetch /\ InitNoApi /\ InitNoExtra
    /\ p_locations \in 0..MaxLocations
    /\ p_submitted = 0
    /\ p_threads = 0
    /\ p_running = 0
    /\ p_done = 0

\* Line 270, executor.submit for the next item of locations: the call is
\* queued, and a worker thread is started for it unless a free worker is there
\* to take it or the limit is reached.
PoolSubmit ==
    /\ p_submitted < p_locations
    /\ p_submitted' = p_submitted + 1
    /\ p_threads' = IF p_threads - p_running > Queued \/ ThreadLimitReached(p_threads)
                    THEN p_threads ELSE p_threads + 1
    /\ UNCHANGED <<p_locations, p_running, p_done>>
    /\ UNCHANGED <<mvars, bvars, fvars, avars, xvars>>

\* A worker thread that is executing no call takes one from the queue and
\* enters fetch_location_data.
PoolTake ==
    /\ Queued > 0
    /\ p_threads - p_running > 0
    /\ p_running' = p_running + 1
    /\ UNCHANGED <<p_locations, p_submitted, p_threads, p_done>>
    /\ UNCHANGED <<mvars, bvars, fvars, avars, xvars>>

\* fetch_location_data returns in one worker.
PoolFinish ==
    /\ p_running > 0
    /\ p_running' = p_running - 1
    /\ p_done' = p_done + 1
    /\ UNCHANGED <<p_locations, p_submitted, p_threads>>
    /\ UNCHANGED <<mvars, bvars, fvars, avars, xvars>>

NextPool ==
    \/ PoolSubmit
    \/ PoolTake
    \/ PoolFinish

SpecPool == InitPool /\ [][NextPool]_vars

---------------------------------------------------------------------------
(* _fetch_live_weather_data, step by step *)

\* The coordinates a location of geolocations.json can carry: a JSON array
\* (items) or a JSON object (keys in file order, items their values), or a
\* value that is neither.
Coord(kind, keys, items) == [kind |-> kind, keys |-> keys, items |-> items]
Coordinates ==
    { Coord("list", <<>>, <<"48.85", "2.35">>),
      Coord("list", <<>>, <<"48.85">>),
      Coord("list", <<>>, <<"48.85", "2.35", "35">>),
      Coord("dict", <<"latitude", "longitude">>, <<"48.85", "2.35">>),
      Coord("dict", <<"latitude", "longitude", "state", "country">>,
                    <<"48.85", "2.35", "IDF", "FR">>),
      Coord("scalar", <<>>, <<>>) }

\* The hourly series of a provider body: entries are values or JSON null.
Values == {"null", "a", "b"}
Series == UNION {[1..n -> Values] : n \in 0..MaxLen}
\* What an hourly parameter holds: a list, or a value that is not a list.
Item(list, values) == [list |-> list, values |-> values]
Items == {Item(TRUE, vs) : vs \in Series} \cup {Item(FALSE, <<>>)}
Params == {"time", "temperature_2m"}
Hourlies == UNION {[ps -> Items] : ps \in SUBSET Params}

\* A JSON body: null, a number, an array, or an object - with other keys or
\* not, with no "hourly" key, an "hourly" object, or an "hourly" of another type.
Body(type, has_other, hourly_kind, hourly) ==
    [type |-> type, has_other |-> has_other, hourly_kind |-> hourly_kind,
     hourly |-> hourly]
Bodies ==
    {Body(t, FALSE, "absent", EmptyDict) : t \in {"null", "number", "array"}}
    \cup {Body("object", o, "absent", EmptyDict) : o \in BOOLEAN}
    \cup {Body("object", FALSE, "other", EmptyDict)}
    \cup {Body("object", FALSE, "dict", h) : h \in Hourlies}

\* What the provider does with the request.
Reply(kind, body) == [kind |-> kind, body |-> body]
Replies ==
    {Reply(k, None) : k \in {"timeout", "http_error", "not_json"}}
    \cup {Reply("json", Some(b)) : b \in Bodies}

\* Python's truth value of a decoded JSON body (number: a non-zero one; array:
\* a non-empty one).
BodyTruthy(body) ==
    CASE body.type = "null" -> FALSE
      [] body.type = "object" -> body.has_other \/ body.hourly_kind # "absent"
      [] OTHER -> TRUE

\* Line 297, `latitude, longitude = coordinates`: iterating a dict yields its
\* keys; anything but two items raises.
Iterated(c) == IF c.kind = "dict" THEN c.keys ELSE c.items
UnpackRaises(c) ==
    CASE c.kind = "scalar" -> "TypeError"
      [] Len(Iterated(c)) # 2 -> "ValueError"
      [] OTHER -> "no"
Unpack(c) == [latitude |-> Iterated(c)[1], longitude |-> Iterated(c)[2]]

\* Lines 343-348: the loop over one series.
RECURSIVE CleanValuesCompacting(_)
CleanValuesCompacting(values) ==
    IF values = <<>> THEN <<>>
    ELSE IF Head(values) = "null" THEN CleanValuesCompacting(Tail(values))
    ELSE <<Head(values)>> \o CleanValuesCompacting(Tail(values))
RECURSIVE CleanValues(_)
CleanValues(values) ==
    IF values = <<>> THEN <<>>
    ELSE IF Head(values) = "null" THEN <<"null">> \o CleanValues(Tail(values))
    ELSE <<Head(values)>> \o CleanValues(Tail(values))

\* Lines 339-352: the cleaned hourly object.
CleanHourly(hourly) ==
    [p \in DOMAIN hourly |->
        IF hourly[p].list THEN Item(TRUE, CleanValues(hourly[p].values))
        ELSE hourly[p]]

\* Lines 338-340: what `'hourly' in data` and `data['hourly'].items()` raise.
CleanRaises(body) ==
    CASE body.type \in {"null", "number"} -> "TypeError"
      [] body.type = "object" /\ body.hourly_kind = "other" -> "AttributeError"
      [] OTHER -> "no"

\* Lines 356-358, `except Exception`: the exceptions the handler catches.
CaughtRequestErrors(exc) == exc \in {"Timeout", "HTTPError"}
Caught(exc) == TRUE

\* How a call ended: by raising or by returning value.
Ended(raised, value) == Some([raised |-> raised, value |-> value])

InitFetch ==
    /\ InitManager /\ InitNoBatch /\ InitNoPool /\ InitNoApi /\ InitNoExtra
    /\ f_coordinates \in Coordinates
    /\ f_reply \in Replies
    /\ f_pc = "unpack"
    /\ f_request = None
    /\ f_data = None
    /\ f_result = None

\* An exception raised inside the try block: returned as None by the handler
\* when it catches it, else it leaves the function.
Except(exc) ==
    /\ f_result' = Ended(~ Caught(exc), None)
    /\ f_pc' = "done"

\* Lines 297-330: the coordinates are unpacked and the request is built.
FetchUnpack ==
    /\ f_pc = "unpack"
    /\ IF UnpackRaises(f_coordinates) # "no"
       THEN /\ Except(UnpackRaises(f_coordinates))
            /\ UNCHANGED f_request
       ELSE /\ f_request' = Some(Unpack(f_coordinates))
            /\ f_pc' = "get"
            /\ UNCHANGED f_result
    /\ UNCHANGED <<f_coordinates, f_reply, f_data>>
    /\ UNCHANGED <<mvars, bvars, pvars, avars, xvars>>

\* Line 332: requests.get with timeout=10.
FetchGet ==
    /\ f_pc = "get"
    /\ IF f_reply.kind = "timeout"
       THEN Except("Timeout")
       ELSE f_pc' = "status" /\ UNCHANGED f_result
    /\ UNCHANGED <<f_coordinates, f_reply, f_request, f_data>>
    /\ UNCHANGED <<mvars, bvars, pvars, avars, xvars>>

\* Line 333: raise_for_status.
FetchStatus ==
    /\ f_pc = "status"
    /\ IF f_reply.kind = "http_error"
       THEN Except("HTTPError")
       ELSE f_pc' = "json" /\ UNCHANGED f_result
    /\ UNCHANGED <<f_coordinates, f_reply, f_request, f_data>>
    /\ UNCHANGED <<mvars, bvars, pvars, avars, xvars>>

\* Line 335: data = response.json().
FetchJson ==
    /\ f_pc = "json"
    /\ IF f_reply.kind = "not_json"
       THEN Except("JSONDecodeError") /\ UNCHANGED f_data
       ELSE f_data' = f_reply.body /\ f_pc' = "clean" /\ UNCHANGED f_result
    /\ UNCHANGED <<f_coordinates, f_reply, f_request>>
    /\ UNCHANGED <<mvars, bvars, pvars, avars, xvars>>

\* Lines 338-354: the hourly object is replaced by its cleaned copy when there
\* is one, and data is returned.
FetchClean ==
    /\ f_pc = "clean"
    /\ LET data == f_data[1]
       IN  IF CleanRaises(data) # "no"
           THEN Except(CleanRaises(data)) /\ UNCHANGED f_data
           ELSE LET cleaned == IF data.type = "object" /\ data.hourly_kind = "dict"
                               THEN [data EXCEPT !.hourly = CleanHourly(data.hourly)]
                               ELSE data
                IN  /\ f_data' = Some(cleaned)
                    /\ f_result' = Ended(FALSE, Some(cleaned))
                    /\ f_pc' = "done"
    /\ UNCHANGED <<f_coordinates, f_reply, f_request>>
    /\ UNCHANGED <<mvars, bvars, pvars, avars, xvars>>

NextFetch ==
    \/ FetchUnpack
    \/ FetchGet
    \/ FetchStatus
    \/ FetchJson
    \/ FetchClean

SpecFetch == InitFetch /\ [][NextFetch]_vars

---------------------------------------------------------------------------
(* The HTTP handlers of index.py, one request at a time *)

\* A JSONResponse of a handler.
Response(handler, reply) == Some([handler |-> handler, reply |-> reply])

\* force_data_update, lines 150-155: the body of the one return statement that
\* is executed; the call of the data manager below it is commented out.
force_data_update == [status_code |-> 200, success |-> TRUE]

\* GET /api/data/weather, lines 173-188: load_weather_data run to its end (no
\* other thread is modelled here) and the response built from what it returned.
GetWeatherData ==
    /\ n_requests < MaxRequests
    /\ n_requests' = n_requests + 1
    /\ IF IsFresh(data_cache, cache_timestamp, now)
       THEN /\ last_return' = Returned("load", data_cache, TRUE)
            /\ UNCHANGED <<data_cache, cache_timestamp, batch_seq>>
       ELSE \E file_ok \in BOOLEAN :
              IF LoadLocations(file_ok) = {}
              THEN /\ last_return' = Returned("load", None, FALSE)
                   /\ UNCHANGED <<data_cache, cache_timestamp, batch_seq>>
              ELSE /\ batch_seq < MaxBatches
                   /\ batch_seq' = batch_seq + 1
                   /\ \E oc \in [Locations -> ManagerOutcomes] :
                        LET live == FetchDataInBatches(Locations, oc, batch_seq + 1)
                        IN  /\ data_cache' = NextCache(data_cache, live)
                            /\ IF DOMAIN live # {}
                               THEN /\ cache_timestamp' = now
                                    /\ last_return' = Returned("load", Some(live), TRUE)
                               ELSE /\ UNCHANGED cache_timestamp
                                    /\ last_return' = Returned("load", None, FALSE)
    /\ response' = Response("get_weather_data", get_weather_data(last_return'.val))
    /\ UNCHANGED <<now, last_update_check, pc, locals, wake_at>>
    /\ UNCHANGED <<bvars, pvars, fvars, xvars>>

\* POST /api/data/update, lines 149-155.
ForceDataUpdate ==
    /\ n_requests < MaxRequests
    /\ n_requests' = n_requests + 1
    /\ response' = Response("force_data_update", force_data_update)
    /\ UNCHANGED mvars
    /\ UNCHANGED <<bvars, pvars, fvars, xvars>>

NextApi ==
    \/ TickClock
    \/ GetWeatherData
    \/ ForceDataUpdate

SpecApi == Init /\ [][NextApi]_vars

---------------------------------------------------------------------------
(* start_data_manager / stop_data_manager and the update loops *)

ManagerIds == 1..MaxManagers
ThreadIds == 1..MaxThreads

\* How one pass of the loop body (or the startup check) went.
\*   quiet                 nothing was due, or what was due succeeded
\*   update_failed         _perform_update returned False (it catches everything)
\*   provider_unreachable  every fetch of the batch failed: fresh_data is empty
\*   refresh_raised        the cache refresh raised; the inner except caught it
\*   escaped               an exception was raised outside the inner try
CycleOutcomes == {"quiet", "update_failed", "provider_unreachable",
                  "refresh_raised", "escaped"}
StartupOutcomes == {"quiet", "update_failed"}

\* The loop's outer handler is "except Exception": it catches whatever a pass
\* lets escape.
CaughtByLoopRefreshOnly(outcome) == outcome # "escaped"
CaughtByLoop(outcome) == outcome \in CycleOutcomes

\* The timeout of the wait that ends a pass: 600 at the end of the try body,
\* 300 in the outer handler.
WaitAfter(outcome) ==
    IF outcome = "escaped" THEN ERROR_WAIT_SECONDS ELSE LOOP_WAIT_SECONDS

\* Thread.is_alive()
Alive(t) == loop_pc[t] \notin {"unborn", "exited"}

\* The thread is inside _perform_update or a batch fetch, which take longer
\* than the 10 seconds stop_background_updates waits in join.
Busy(t) == loop_pc[t] \in {"startup", "cycle"}

\* should_stop.is_set() of the manager thread t belongs to.
StopSet(t) == loop_manager[t] # 0 /\ should_stop[loop_manager[t]]

\* WeatherStationApp.__init__: self.data_manager = get_data_manager(), which
\* constructs the global manager when there is none and starts nothing.
GetDataManager ==
    /\ main_pc = "idle"
    /\ app_manager = 0
    /\ data_manager = 0 => n_managers < MaxManagers
    /\ LET m == IF data_manager = 0 THEN n_managers + 1 ELSE data_manager
       IN  /\ data_manager' = m
           /\ app_manager' = m
           /\ n_managers' = IF data_manager = 0 THEN n_managers + 1 ELSE n_managers
    /\ UNCHANGED <<should_stop, update_thread, n_threads, main_pc, loop_pc,
                   loop_manager, loop_outcome, loop_wait, loop_remaining,
                   loop_checked, started>>
    /\ UNCHANGED <<mvars, bvars, pvars, fvars, avars, rvars, uvars, nvars>>

\* start_data_manager(): get_data_manager(), then start_background_updates()
\* on it, which returns at once when the manager's thread is alive and
\* otherwise clears should_stop and starts a new thread.
StartDataManager ==
    /\ main_pc = "idle"
    /\ data_manager = 0 => n_managers < MaxManagers
    /\ LET m == IF data_manager = 0 THEN n_managers + 1 ELSE data_manager
           t == n_threads + 1
       IN  /\ data_manager' = m
           /\ n_managers' = IF data_manager = 0 THEN n_managers + 1 ELSE n_managers
           /\ started' = [started EXCEPT ![m] = TRUE]
           /\ IF update_thread[m] # 0 /\ Alive(update_thread[m])
              THEN UNCHANGED <<should_stop, update_thread, n_threads, loop_pc,
                               loop_manager>>
              ELSE /\ n_threads < MaxThreads
                   /\ should_stop' = [should_stop EXCEPT ![m] = FALSE]
                   /\ update_thread' = [update_thread EXCEPT ![m] = t]
                   /\ n_threads' = t
                   /\ loop_pc' = [loop_pc EXCEPT ![t] = "startup"]
                   /\ loop_manager' = [loop_manager EXCEPT ![t] = m]
    /\ UNCHANGED <<main_pc, loop_outcome, loop_wait, loop_remaining, loop_checked,
                   app_manager>>
    /\ UNCHANGED <<mvars, bvars, pvars, fvars, avars, rvars, uvars, nvars>>

\* stop_data_manager() up to the join: with a global manager that has a
\* thread, should_stop is set and the caller waits in join(timeout=10); with
\* one that never had a thread, the global is set to None at once.
StopDataManager ==
    /\ main_pc = "idle"
    /\ data_manager # 0
    /\ started' = [started EXCEPT ![data_manager] = FALSE]
    /\ IF update_thread[data_manager] # 0
       THEN /\ should_stop' = [should_stop EXCEPT ![data_manager] = TRUE]
            /\ main_pc' = "join"
            /\ UNCHANGED data_manager
       ELSE /\ data_manager' = 0
            /\ UNCHANGED <<should_stop, main_pc>>
    /\ UNCHANGED <<n_managers, update_thread, n_threads, loop_pc, loop_manager,
                   loop_outcome, loop_wait, loop_remaining, loop_checked,
                   app_manager>>
    /\ UNCHANGED <<mvars, bvars, pvars, fvars, avars, rvars, uvars, nvars>>

\* stop_background_updates() called on the global manager, up to the join:
\* should_stop is set and the caller waits in join(timeout=10).
StopBackgroundUpdates ==
    /\ main_pc = "idle"
    /\ data_manager # 0
    /\ update_thread[data_manager] # 0
    /\ started' = [started EXCEPT ![data_manager] = FALSE]
    /\ should_stop' = [should_stop EXCEPT ![data_manager] = TRUE]
    /\ main_pc' = "join_only"
    /\ UNCHANGED <<data_manager, n_managers, update_thread, n_threads, loop_pc,
                   loop_manager, loop_outcome, loop_wait, loop_remaining,
                   loop_checked, app_manager>>
    /\ UNCHANGED <<mvars, bvars, pvars, fvars, avars, rvars, uvars, nvars>>

\* The join returns, because the thread has ended or because 10 seconds have
\* passed with the thread still busy; stop_data_manager then sets the global
\* to None.
JoinReturn ==
    /\ main_pc \in {"join", "join_only"}
    /\ LET t == update_thread[data_manager]
       IN  loop_pc[t] = "exited" \/ Busy(t)
    /\ main_pc' = "idle"
    /\ data_manager' = IF main_pc = "join" THEN 0 ELSE data_manager
    /\ UNCHANGED <<n_managers, should_stop, update_thread, n_threads, loop_pc,
                   loop_manager, loop_outcome, loop_wait, loop_remaining,
                   loop_checked, started, app_manager>>
    /\ UNCHANGED <<mvars, bvars, pvars, fvars, avars, rvars, uvars, nvars>>

\* _update_loop before the while: the startup check of should_update_data and,
\* when it is due, _perform_update.
LoopStartupWaitsFirst(t) ==
    /\ loop_pc[t] = "startup"
    /\ loop_pc' = [loop_pc EXCEPT ![t] = "wait"]
    /\ loop_wait' = [loop_wait EXCEPT ![t] = LOOP_WAIT_SECONDS]
    /\ loop_remaining' = [loop_remaining EXCEPT ![t] = LOOP_WAIT_SECONDS]
    /\ UNCHANGED <<data_manager, app_manager, started, n_managers, should_stop, update_thread, n_threads,
                   main_pc, loop_manager, loop_outcome, loop_checked>>
    /\ UNCHANGED <<mvars, bvars, pvars, fvars, avars, rvars, uvars, nvars>>

LoopStartup(t) ==
    /\ loop_pc[t] = "startup"
    /\ \E outcome \in StartupOutcomes :
           loop_outcome' = [loop_outcome EXCEPT ![t] = outcome]
    /\ loop_pc' = [loop_pc EXCEPT ![t] = "top"]
    /\ UNCHANGED <<data_manager, app_manager, started, n_managers, should_stop, update_thread, n_threads,
                   main_pc, loop_manager, loop_wait, loop_remaining, loop_checked>>
    /\ UNCHANGED <<mvars, bvars, pvars, fvars, avars, rvars, uvars, nvars>>

\* while not self.should_stop.is_set(): the thread ends when the event is set
\* and enters the try body otherwise.
LoopTest(t) ==
    /\ loop_pc[t] = "top"
    /\ loop_pc' = [loop_pc EXCEPT ![t] = IF StopSet(t) THEN "exited" ELSE "cycle"]
    /\ UNCHANGED <<data_manager, app_manager, started, n_managers, should_stop, update_thread, n_threads,
                   main_pc, loop_manager, loop_outcome, loop_wait,
                   loop_remaining, loop_checked>>
    /\ UNCHANGED <<mvars, bvars, pvars, fvars, avars, rvars, uvars, nvars>>

\* One pass of the try body: the weekly check, the staleness test and the
\* refresh it may start, up to the call of should_stop.wait that ends the pass
\* (wait(600) in the body, wait(300) in the outer handler). An exception the
\* loop did not catch would end the thread.
LoopCycle(t) ==
    /\ loop_pc[t] = "cycle"
    /\ \E outcome \in CycleOutcomes :
           /\ loop_outcome' = [loop_outcome EXCEPT ![t] = outcome]
           /\ IF CaughtByLoop(outcome)
              THEN /\ loop_pc' = [loop_pc EXCEPT ![t] = "wait"]
                   /\ loop_wait' = [loop_wait EXCEPT ![t] = WaitAfter(outcome)]
                   /\ loop_remaining' =
                          [loop_remaining EXCEPT ![t] = WaitAfter(outcome)]
              ELSE /\ loop_pc' = [loop_pc EXCEPT ![t] = "exited"]
                   /\ UNCHANGED <<loop_wait, loop_remaining>>
    /\ loop_checked' = [loop_checked EXCEPT ![t] = TRUE]
    /\ UNCHANGED <<data_manager, app_manager, started, n_managers, should_stop, update_thread, n_threads,
                   main_pc, loop_manager>>
    /\ UNCHANGED <<mvars, bvars, pvars, fvars, avars, rvars, uvars, nvars>>

\* should_stop.wait(timeout) returns: the timeout has run out, or the event is
\* set (Event.wait returns as soon as it is). The thread goes back to the
\* while test.
LoopWakeOnTimeoutOnly(t) ==
    /\ loop_pc[t] = "wait"
    /\ loop_remaining[t] = 0
    /\ loop_pc' = [loop_pc EXCEPT ![t] = "top"]
    /\ loop_checked' = [loop_checked EXCEPT ![t] = FALSE]
    /\ UNCHANGED <<data_manager, app_manager, started, n_managers, should_stop, update_thread, n_threads,
                   main_pc, loop_manager, loop_outcome, loop_wait, loop_remaining>>
    /\ UNCHANGED <<mvars, bvars, pvars, fvars, avars, rvars, uvars, nvars>>

LoopWake(t) ==
    /\ loop_pc[t] = "wait"
    /\ loop_remaining[t] = 0 \/ StopSet(t)
    /\ loop_pc' = [loop_pc EXCEPT ![t] = "top"]
    /\ loop_checked' = [loop_checked EXCEPT ![t] = FALSE]
    /\ UNCHANGED <<data_manager, app_manager, started, n_managers, should_stop, update_thread, n_threads,
                   main_pc, loop_manager, loop_outcome, loop_wait, loop_remaining>>
    /\ UNCHANGED <<mvars, bvars, pvars, fvars, avars, rvars, uvars, nvars>>

\* Time passes for the threads that wait.
LoopTick ==
    /\ \E t \in ThreadIds : loop_pc[t] = "wait" /\ loop_remaining[t] > 0
    /\ loop_remaining' =
           [t \in ThreadIds |->
               IF loop_pc[t] = "wait" /\ loop_remaining[t] > WaitTick
               THEN loop_remaining[t] - WaitTick
               ELSE IF loop_pc[t] = "wait" THEN 0 ELSE loop_remaining[t]]
    /\ UNCHANGED <<data_manager, app_manager, started, n_managers, should_stop, update_thread, n_threads,
                   main_pc, loop_pc, loop_manager, loop_outcome, loop_wait,
                   loop_checked>>
    /\ UNCHANGED <<mvars, bvars, pvars, fvars, avars, rvars, uvars, nvars>>

\* One step of update thread t.
LoopStep(t) ==
    \/ LoopStartup(t)
    \/ LoopTest(t)
    \/ LoopCycle(t)
    \/ LoopWake(t)

NextLoop ==
    \/ GetDataManager
    \/ StartDataManager
    \/ StopDataManager
    \/ StopBackgroundUpdates
    \/ JoinReturn
    \/ \E t \in ThreadIds : LoopStartup(t)
    \/ \E t \in ThreadIds : LoopTest(t)
    \/ \E t \in ThreadIds : LoopCycle(t)
    \/ \E t \in ThreadIds : LoopWake(t)
    \/ LoopTick

SpecLoop == Init /\ [][NextLoop]_vars

\* The update threads are scheduled: a thread that can step does. Nothing is
\* assumed of the clock.
FairSpecLoop == SpecLoop /\ \A t \in ThreadIds : WF_vars(LoopStep(t))

\* The update threads are scheduled and time passes.
FairSpecLoopClock ==
    SpecLoop /\ (\A t \in ThreadIds : WF_vars(LoopStep(t))) /\ WF_vars(LoopTick)

---------------------------------------------------------------------------
(* The dict objects load_weather_data stores and returns *)

\* A Python dict is an object with an identity: r_heap[i] is the present
\* content of object i, and r_cache and r_held name objects. The content of an
\* object maps location names to "fetched" (the record the fetch stored) or
\* "changed" (anything a holder of the object put there since).
Contents == UNION {[S -> {"fetched", "changed"}] : S \in SUBSET Locations}

\* What a reader of self._data_cache finds in it.
CacheContents == IF r_cache = 0 THEN None ELSE Some(r_heap[r_cache])

\* load_weather_data with a fresh cache: return self._data_cache.
RefLoadCached ==
    /\ r_cache # 0
    /\ r_held' = r_cache
    /\ UNCHANGED <<r_heap, r_cache>>
    /\ UNCHANGED <<mvars, bvars, pvars, fvars, avars, lvars, uvars, nvars>>

\* load_weather_data with no fresh cache, the batch fetching some location:
\* _fetch_data_in_batches builds a new dict, which is stored in
\* self._data_cache and returned.
RefLoadFetched ==
    /\ Len(r_heap) < MaxObjects
    /\ \E S \in SUBSET Locations \ {{}} :
           r_heap' = Append(r_heap, [l \in S |-> "fetched"])
    /\ r_cache' = Len(r_heap) + 1
    /\ r_held' = Len(r_heap) + 1
    /\ UNCHANGED <<mvars, bvars, pvars, fvars, avars, lvars, uvars, nvars>>

\* load_weather_data with no fresh cache, the batch fetching nothing: the cache
\* is left alone and None is returned.
RefLoadFailed ==
    /\ r_held' = 0
    /\ UNCHANGED <<r_heap, r_cache>>
    /\ UNCHANGED <<mvars, bvars, pvars, fvars, avars, lvars, uvars, nvars>>

\* The caller changes the mapping it was returned: it adds, removes or
\* replaces the entry of one location.
CallerMutates ==
    /\ r_held # 0
    /\ \E c \in Contents :
           /\ c # r_heap[r_held]
           /\ \E l \in Locations :
                  \A k \in Locations \ {l} :
                      /\ k \in DOMAIN c <=> k \in DOMAIN r_heap[r_held]
                      /\ k \in DOMAIN c => c[k] = r_heap[r_held][k]
           /\ \A l \in DOMAIN c :
                  c[l] = "fetched" => (l \in DOMAIN r_heap[r_held]
                                         /\ r_heap[r_held][l] = "fetched")
           /\ r_heap' = [r_heap EXCEPT ![r_held] = c]
    /\ UNCHANGED <<r_cache, r_held>>
    /\ UNCHANGED <<mvars, bvars, pvars, fvars, avars, lvars, uvars, nvars>>

NextRef ==
    \/ RefLoadCached
    \/ RefLoadFetched
    \/ RefLoadFailed
    \/ CallerMutates

SpecRef == Init /\ [][NextRef]_vars

---------------------------------------------------------------------------
(* The batch updater script update_weather_information.py *)

\* What the provider does for one city's request.
\*   ok      a 2xx or 3xx answer with the forecast as its JSON body
\*   not_ok  an answer with an error status: response.ok is False
\*   raises  requests.get raises (no connection), or the body is not JSON
UpdaterOutcomes == {"ok", "not_ok", "raises"}

\* A JSON object, by the keys it has: the forecast body, and the empty dict.
ForecastBody == {"latitude", "longitude", "hourly_units", "hourly"}
EmptyBody == {}

\* fetch_weather_and_pressure_information for an answer that came: {} when
\* response.ok is False, response.json() otherwise.
Fetched(outcome) == IF outcome = "not_ok" THEN EmptyBody ELSE ForecastBody

\* The script starts: geolocations.json is loaded, output is {}; the file
\* output_data.json is not there, or is that of an earlier run (None).
InitUpdater ==
    /\ InitManager /\ InitNoBatch /\ InitNoPool /\ InitNoFetch /\ InitNoApi
    /\ InitLoop /\ InitRef /\ InitStatus /\ InitNoApp
    /\ u_data \in SUBSET BatchLocations
    /\ u_outcome \in [u_data -> UpdaterOutcomes]
    /\ u_todo = u_data
    /\ u_output = <<>>
    /\ u_pc = "loop"
    /\ u_file = None

\* One turn of the for loop: the city's request is made and what the function
\* returns is stored under the city's name. The function catches nothing: when
\* the request raises, the script ends there with a traceback.
UpdaterFetch ==
    /\ u_pc = "loop"
    /\ \E city \in u_todo :
           IF u_outcome[city] = "raises"
           THEN /\ u_pc' = "crashed"
                /\ UNCHANGED <<u_todo, u_output>>
           ELSE /\ u_output' = [c \in DOMAIN u_output \cup {city} |->
                                   IF c = city THEN Fetched(u_outcome[city])
                                               ELSE u_output[c]]
                /\ u_todo' = u_todo \ {city}
                /\ UNCHANGED u_pc
    /\ UNCHANGED <<u_data, u_outcome, u_file>>
    /\ UNCHANGED <<mvars, bvars, pvars, fvars, avars, lvars, rvars, nvars>>

\* After the loop: json.dump(output) into output_data.json.
UpdaterWrite ==
    /\ u_pc = "loop"
    /\ u_todo = {}
    /\ u_file' = Some(u_output)
    /\ u_pc' = "done"
    /\ UNCHANGED <<u_data, u_outcome, u_todo, u_output>>
    /\ UNCHANGED <<mvars, bvars, pvars, fvars, avars, lvars, rvars, nvars>>

NextUpdater ==
    \/ UpdaterFetch
    \/ UpdaterWrite

SpecUpdater == InitUpdater /\ [][NextUpdater]_vars

---------------------------------------------------------------------------
(* get_status, the startup event and the weekly check *)

\* The long step of the clock: half an update interval.
StatusLongTick == DATA_UPDATE_INTERVAL \div 2

LongTicks == (now - StartTime) \div StatusLongTick
ShortTicks == ((now - StartTime) % StatusLongTick) \div StatusShortTick

\* get_status's `if self._data_cache and self._cache_timestamp > 0`: the cache
\* is neither None nor an empty dict, and a timestamp was written.
StatusCounts(cache, ts) == cache # None /\ DOMAIN cache[1] # {} /\ ts > 0

\* get_status: the cache_status part of the dict it returns, with needs_update
\* and background_thread_running. cache_age_minutes starts at 0 and is
\* computed only under the test above; cache_fresh compares it with 15
\* whatever the test said. (The rounded cache_age_minutes and data_info are
\* left out.)
get_status(cache, ts, t, luc, running) ==
    LET cache_age_seconds == IF StatusCounts(cache, ts) THEN t - ts ELSE 0
    IN  [has_cache |-> cache # None,
         cached_locations |->
             IF StatusCounts(cache, ts) THEN Cardinality(DOMAIN cache[1]) ELSE 0,
         cache_fresh |-> cache_age_seconds < FRESH_MINUTES * 60,
         needs_update |-> NeedsUpdate(t, luc),
         background_thread_running |-> running]

\* The clock advances, by a short or a long step.
StatusTick ==
    /\ \/ /\ ShortTicks < MaxShortTicks
          /\ now' = now + StatusShortTick
       \/ /\ LongTicks < MaxLongTicks
          /\ now' = now + StatusLongTick
    /\ UNCHANGED <<data_cache, cache_timestamp, last_update_check, pc, locals,
                   wake_at, batch_seq, last_return>>
    /\ UNCHANGED <<bvars, pvars, fvars, avars, lvars, rvars, uvars, svars, wvars>>

\* startup_event, line 65: start_data_manager() starts the update thread.
\* (pc["http"] is "idle" before the application starts, "serving" after its
\* startup event.)
StartupStart ==
    /\ pc["http"] = "idle"
    /\ pc["bg"] = "none"
    /\ pc' = [pc EXCEPT !["http"] = "startup_check", !["bg"] = "startup"]
    /\ UNCHANGED <<now, data_cache, cache_timestamp, last_update_check, locals,
                   wake_at, batch_seq, last_return>>
    /\ UNCHANGED <<bvars, pvars, fvars, avars, lvars, rvars, uvars, svars, wvars>>

\* startup_event, lines 68-71: `if self.data_manager.should_update_data()`,
\* whose body only logs.
StartupCheck ==
    /\ pc["http"] = "startup_check"
    /\ ShouldUpdateData
    /\ pc' = [pc EXCEPT !["http"] = "serving"]
    /\ UNCHANGED <<now, data_cache, cache_timestamp, locals, wake_at, batch_seq,
                   last_return>>
    /\ UNCHANGED <<bvars, pvars, fvars, avars, lvars, rvars, uvars, svars, wvars>>

\* GET /health or GET /api/data/status: get_status(), which calls
\* should_update_data() for its needs_update member.
GetStatus ==
    /\ pc["http"] = "serving"
    /\ status' = Some(get_status(data_cache, cache_timestamp, now,
                                 last_update_check, pc["bg"] # "none"))
    /\ ShouldUpdateData
    /\ UNCHANGED <<now, data_cache, cache_timestamp, pc, locals, wake_at,
                   batch_seq, last_return>>
    /\ UNCHANGED <<n_updates, update_result>>
    /\ UNCHANGED <<bvars, pvars, fvars, avars, lvars, rvars, uvars, wvars>>

\* A refresh from test to stamp, as the request thread's other handlers and
\* the status handler see it: a non-empty result is published with the time
\* read at the test.
StatusRefresh ==
    \E oc \in [Locations -> ManagerOutcomes] :
        LET fresh == FetchDataInBatches(Locations, oc, 1)
        IN  /\ data_cache' = NextCache(data_cache, fresh)
            /\ cache_timestamp' = IF DOMAIN fresh # {} THEN now ELSE cache_timestamp

\* GET /api/data/weather: load_weather_data, the whole call.
StatusLoad ==
    /\ pc["http"] = "serving"
    /\ IF IsFresh(data_cache, cache_timestamp, now)
       THEN UNCHANGED <<data_cache, cache_timestamp>>
       ELSE StatusRefresh
    /\ UNCHANGED <<now, last_update_check, pc, locals, wake_at, batch_seq,
                   last_return>>
    /\ UNCHANGED <<bvars, pvars, fvars, avars, lvars, rvars, uvars, svars, wvars>>

\* `if self.should_update_data(): self._perform_update()`: when the interval
\* has elapsed, _last_update_check is set and the update runs, returning True
\* or False.
PerformIfDue ==
    IF NeedsUpdate(now, last_update_check)
    THEN /\ ShouldUpdateData
         /\ n_updates' = n_updates + 1
         /\ \E ok \in BOOLEAN : update_result' = IF ok THEN "ok" ELSE "failed"
    ELSE UNCHANGED <<last_update_check, n_updates, update_result>>

\* _update_loop, lines 59-61: the check on startup.
StatusBgStartup ==
    /\ pc["bg"] = "startup"
    /\ PerformIfDue
    /\ pc' = [pc EXCEPT !["bg"] = "top"]
    /\ UNCHANGED <<now, data_cache, cache_timestamp, locals, wake_at, batch_seq,
                   last_return>>
    /\ UNCHANGED status
    /\ UNCHANGED <<bvars, pvars, fvars, avars, lvars, rvars, uvars, wvars>>

\* _update_loop, lines 63-87: one pass, with its weekly check, its refresh of
\* a stale snapshot and the start of its wait.
StatusBgCycle ==
    /\ pc["bg"] = "top"
    /\ PerformIfDue
    /\ IF BgIsStale(data_cache, cache_timestamp, now)
       THEN StatusRefresh
       ELSE UNCHANGED <<data_cache, cache_timestamp>>
    /\ pc' = [pc EXCEPT !["bg"] = "wait"]
    /\ wake_at' = now + LOOP_WAIT_SECONDS
    /\ UNCHANGED <<now, locals, batch_seq, last_return>>
    /\ UNCHANGED status
    /\ UNCHANGED <<bvars, pvars, fvars, avars, lvars, rvars, uvars, wvars>>

\* should_stop.wait(600) times out.
StatusBgWake ==
    /\ pc["bg"] = "wait"
    /\ now >= wake_at
    /\ pc' = [pc EXCEPT !["bg"] = "top"]
    /\ wake_at' = 0
    /\ UNCHANGED <<now, data_cache, cache_timestamp, last_update_check, locals,
                   batch_seq, last_return>>
    /\ UNCHANGED <<bvars, pvars, fvars, avars, lvars, rvars, uvars, svars, wvars>>

NextStatus ==
    \/ StatusTick
    \/ StartupStart
    \/ StartupCheck
    \/ GetStatus
    \/ StatusLoad
    \/ StatusBgStartup
    \/ StatusBgCycle
    \/ StatusBgWake

SpecStatus == Init /\ [][NextStatus]_vars

---------------------------------------------------------------------------
(* GET /api/data/weather of the simple app *)

Max(a, b) == IF a >= b THEN a ELSE b
Min(a, b) == IF a <= b THEN a ELSE b

\* limit = max(1, min(limit, 100))
ClampUpperOnly(limit) == Min(limit, LIMIT_MAX)
Clamp(limit) == Max(LIMIT_MIN, Min(limit, LIMIT_MAX))

\* The values of the limit query parameter the requests are drawn from: around
\* both ends of the range.
Limits ==
    ((LIMIT_MIN - LimitMargin)..(LIMIT_MIN + LimitMargin))
        \cup ((LIMIT_MAX - LimitMargin)..(LIMIT_MAX + LimitMargin))

\* An entry of the locations file: coordinates as a list of two numbers, as an
\* object, or as anything else (which the loop skips with a warning).
Entries == {"list", "dict", "invalid"}

\* The locations files: the entries in the file's order.
LocationFiles == UNION {[1..n -> Entries] : n \in 0..MaxAppLocations}

\* A request arrives with its limit, the locations file being what it is.
InitApp ==
    /\ InitManager /\ InitNoBatch /\ InitNoPool /\ InitNoFetch /\ InitNoApi
    /\ InitLoop /\ InitRef /\ InitNoUpdater /\ InitStatus
    /\ app_limit \in Limits
    /\ app_locations \in LocationFiles
    /\ app_pc = "start"
    /\ app_i = 0
    /\ app_count = 0
    /\ app_results = 0
    /\ app_requests = 0
    /\ app_response = None

\* get_weather_data, lines 91-99: the limit is clamped and the locations are
\* loaded; without locations the handler raises HTTPException(500).
AppStart ==
    /\ app_pc = "start"
    /\ IF app_locations = <<>>
       THEN /\ app_response' = Some([status_code |-> 500, count |-> 0,
                                     limit |-> Clamp(app_limit),
                                     total_locations |-> 0])
            /\ app_pc' = "done"
       ELSE /\ app_pc' = "loop"
            /\ UNCHANGED app_response
    /\ UNCHANGED <<app_limit, app_locations, app_i, app_count, app_results,
                   app_requests>>
    /\ UNCHANGED <<mvars, bvars, pvars, fvars, avars, lvars, rvars, uvars, svars>>

\* get_weather_for_multiple_cities, one turn of the for loop past the test
\* `if count >= limit: break`: an entry of neither format is skipped; for any
\* other get_weather_for_city issues one request, its result is appended when
\* it is not None, and count is incremented.
AppLoopStep ==
    /\ app_pc = "loop"
    /\ app_i < Len(app_locations)
    /\ app_count < Clamp(app_limit)
    /\ app_i' = app_i + 1
    /\ IF app_locations[app_i + 1] = "invalid"
       THEN UNCHANGED <<app_count, app_results, app_requests>>
       ELSE /\ app_requests' = app_requests + 1
            /\ app_count' = app_count + 1
            /\ \E fetched \in BOOLEAN :
                   app_results' = IF fetched THEN app_results + 1 ELSE app_results
    /\ UNCHANGED <<app_limit, app_locations, app_pc, app_response>>
    /\ UNCHANGED <<mvars, bvars, pvars, fvars, avars, lvars, rvars, uvars, svars>>

\* The loop ends, by the break or at the end of the file, and the handler
\* returns its dict.
AppReturn ==
    /\ app_pc = "loop"
    /\ app_i = Len(app_locations) \/ app_count >= Clamp(app_limit)
    /\ app_response' = Some([status_code |-> 200, count |-> app_results,
                             limit |-> Clamp(app_limit),
                             total_locations |-> Len(app_locations)])
    /\ app_pc' = "done"
    /\ UNCHANGED <<app_limit, app_locations, app_i, app_count, app_results,
                   app_requests>>
    /\ UNCHANGED <<mvars, bvars, pvars, fvars, avars, lvars, rvars, uvars, svars>>

NextApp ==
    \/ AppStart
    \/ AppLoopStep
    \/ AppReturn

SpecApp == InitApp /\ [][NextApp]_vars

---------------------------------------------------------------------------
(* Properties *)

\* A snapshot that is the whole result of one batch fetch: every record in it
\* comes from the same refresh cycle, and it holds every location that cycle
\* fetched.
CompleteSnapshot(m) ==
    \E n \in 1..MaxBatches :
        \E got \in (SUBSET Locations) \ {{}} :
            m = [l \in got |-> Rec(l, Cycle(n, got))]

\* A step in which thread t publishes a fetched mapping into the cache.
Publishes(t) == InFetch(t) /\ pc'[t] \in {"load_stamp", "refresh_stamp", "bg_stamp"}

\* A step in which thread t sets the timestamp: the end of its refresh.
Stamps(t) == pc[t] \in {"load_stamp", "bg_stamp"} /\ pc'[t] # pc[t]

\* C1 (as claimed): at most one refresh executes at a time: never are two
\* threads inside a batch fetch together.
C1_AtMostOneRefresh == Cardinality({t \in Threads : InFetch(t)}) <= 1

\* C2: what a reader gets from load_weather_data, and what the cache holds, is
\* always the complete result of one batch fetch, never a mapping with records
\* of two refresh cycles or a part of a result.
C2_ReaderSeesOneSnapshot ==
    /\ data_cache # None => CompleteSnapshot(data_cache[1])
    /\ (last_return.op = "load" /\ last_return.val # None)
           => CompleteSnapshot(last_return.val[1])

\* C2 witness: a reader was handed the previous snapshot while the background
\* refresh has published the next one and not yet stamped it.
C2_Witness ==
    /\ last_return.op = "load"
    /\ last_return.val # None
    /\ data_cache # last_return.val
    /\ pc["bg"] = "bg_stamp"

\* C3 (as claimed): a load_weather_data call whose refresh fetched no location
\* still returns the snapshot the cache holds, not None.
C3_StaleServedOnFailure ==
    [][ (pc["http"] = "load_fetch" /\ pc'["http"] = "idle" /\ data_cache # None)
            => last_return'.val # None ]_vars

\* C4: once the cache holds a snapshot, no step makes it None again.
C4_NeverEmptiedAgain == [][ data_cache # None => data_cache' # None ]_vars

\* C4 witness: a forced refresh has failed while the cache holds a snapshot.
C4_Witness ==
    /\ data_cache # None
    /\ last_return = Returned("refresh", None, FALSE)

C8_FailedLocationKept ==
    [][ \A t \in Threads :
          (Publishes(t) /\ data_cache # None)
              => \A l \in DOMAIN data_cache[1] :
                    /\ l \in DOMAIN data_cache'[1]
                    /\ l \notin DOMAIN live_data'[t] => data_cache'[1][l] = data_cache[1][l]
      ]_vars

C10_StaleReplacedAndFresh ==
    [][ \A t \in {"http", "bg"} :
          /\ (Publishes(t) /\ found[t] = "stale")
                => data_cache' = Some(live_data'[t])
          /\ (Stamps(t) /\ found[t] = "stale")
                => /\ cache_timestamp' >= cache_timestamp
                   /\ now - cache_timestamp' < 900
      ]_vars

\* C11: a load_weather_data call that met an empty cache and whose batch
\* fetched no location returns None, GET /api/data/weather answers 404 with no
\* mapping, and the cache is still empty.
C11_EmptyAndFailedIsNotAvailable ==
    [][ (pc["http"] = "load_fetch" /\ pc'["http"] = "idle" /\ data_cache = None)
            => /\ last_return' = Returned("load", None, FALSE)
               /\ get_weather_data(last_return'.val).status_code = 404
               /\ get_weather_data(last_return'.val).data = None
               /\ data_cache' = None
      ]_vars

\* C11 witness: a batch has been fetched, load_weather_data has returned None
\* and the cache is empty.
C11_Witness ==
    /\ batch_seq >= 1
    /\ pc["http"] = "idle"
    /\ last_return = Returned("load", None, FALSE)
    /\ data_cache = None

\* C13 (as claimed): when refresh_cache returns True the cache holds the mapping
\* it has just fetched and the timestamp is the time of the return.
C13_ForcedRefreshPublishes ==
    [][ (pc["http"] = "refresh_stamp" /\ pc'["http"] = "idle")
            => /\ last_return'.ok
               /\ data_cache' = Some(live_data["http"])
               /\ cache_timestamp' = now
      ]_vars

\* C14: a call whose batch fetched at least one location goes on to return
\* success (load_weather_data the fetched mapping, refresh_cache True), whether
\* or not other locations failed; a call that ends straight after the fetch
\* returns None / False.
C14_SuccessIffAnyLocation ==
    [][ /\ (InFetch("http") /\ pc'["http"] \in {"load_stamp", "refresh_stamp"})
              => DOMAIN live_data'["http"] # {}
        /\ (pc["http"] = "load_stamp" /\ pc'["http"] = "idle")
              => /\ DOMAIN live_data["http"] # {}
                 /\ last_return' = Returned("load", Some(live_data["http"]), TRUE)
        /\ (pc["http"] = "refresh_stamp" /\ pc'["http"] = "idle")
              => /\ DOMAIN live_data["http"] # {}
                 /\ last_return' = Returned("refresh", None, TRUE)
        /\ (pc["http"] = "load_fetch" /\ pc'["http"] = "idle")
              => last_return' = Returned("load", None, FALSE)
        /\ (pc["http"] = "refresh_fetch" /\ pc'["http"] = "idle")
              => last_return' = Returned("refresh", None, FALSE)
      ]_vars

\* C14 witness: load_weather_data has returned a mapping that lacks a location
\* whose fetch failed.
C14_Witness ==
    /\ last_return.op = "load"
    /\ last_return.ok
    /\ DOMAIN last_return.val[1] # Locations

\* C27: a step of the weekly check (the only steps that change
\* _last_update_check) starts no batch fetch and changes neither _data_cache nor
\* _cache_timestamp; a step that starts a fetch or changes the cache or its
\* timestamp leaves _last_update_check as it is.
C27_ThresholdsIndependent ==
    [][ /\ (last_update_check' # last_update_check
              \/ (pc["bg"] \in {"startup", "top"} /\ pc'["bg"] # pc["bg"]))
              => UNCHANGED <<data_cache, cache_timestamp, batch_seq, batch_id>>
        /\ (data_cache' # data_cache \/ cache_timestamp' # cache_timestamp
              \/ batch_seq' # batch_seq)
              => UNCHANGED last_update_check
      ]_vars

\* C27 witness: the loop's weekly check has just run again beside a populated,
\* stamped cache.
C27_Witness ==
    /\ pc["bg"] = "stale_check"
    /\ last_update_check > StartTime
    /\ data_cache # None
    /\ cache_timestamp > 0

\* C28: a call that finds no locations (load_weather_data or refresh_cache
\* returning while still idle, a background cycle going from a passed staleness
\* test to its wait) starts no batch fetch, leaves _data_cache and
\* _cache_timestamp unchanged, and returns None / False.
C28_NoLocationsIsNotFatal ==
    [][ /\ (pc["http"] = "idle" /\ pc'["http"] = "idle" /\ last_return' # last_return)
              => /\ UNCHANGED <<data_cache, cache_timestamp, batch_seq>>
                 /\ last_return'.val = None
                 /\ ~ last_return'.ok
        /\ (pc["bg"] = "stale_check" /\ pc'["bg"] = "wait")
              => UNCHANGED <<data_cache, cache_timestamp, batch_seq>>
      ]_vars

\* C28 witness: refresh_cache has returned False without any batch fetch ever
\* having been started.
C28_Witness ==
    /\ batch_seq = 0
    /\ pc["http"] = "idle"
    /\ last_return = Returned("refresh", None, FALSE)

\* The refresh cycle a snapshot comes from.
CycleId(cache) == LET m == cache[1] IN m[CHOOSE l \in DOMAIN m : TRUE].cycle.id

\* C30 (as claimed): _cache_timestamp never decreases, and a publication over a
\* snapshot carries a fetch that started later than the one it overwrites.
C30_LastWriteIsNewestFetch ==
    [][ /\ cache_timestamp' >= cache_timestamp
        /\ \A t \in Threads :
              (Publishes(t) /\ data_cache # None)
                  => CycleId(data_cache') > CycleId(data_cache)
      ]_vars

\* C31 (as claimed): whenever a reader tests the cache (load_weather_data's
\* freshness test, the background staleness test), no publication is half
\* done: the timestamp it reads is the one of the snapshot it reads, and a
\* populated cache does not come with timestamp 0.
C31_ReadersSeeConsistentPair ==
    [][ ( \/ (pc["http"] = "idle" /\ pc'["http"] \in {"load_cached", "load_fetch"})
          \/ (pc["bg"] = "stale_check" /\ pc'["bg"] # "stale_check") )
        => /\ ~ MidPublication
           /\ data_cache # None => cache_timestamp > 0 ]_vars

\* C35: the cache leaves the empty state only by a publication of
\* load_weather_data or refresh_cache (the request thread), never by one of the
\* background loop, which starts no batch fetch beside an empty cache.
C35_BackgroundNeverPopulates ==
    [][ /\ (data_cache = None /\ data_cache' # None)
              => (Publishes("http") /\ ~ Publishes("bg"))
        /\ (pc["bg"] = "stale_check" /\ data_cache = None)
              => pc'["bg"] # "bg_fetch" ]_vars

\* C35 witness: the background loop has gone through its staleness test and
\* woken again, a full wait later, beside a cache still empty.
C35_Witness ==
    /\ data_cache = None
    /\ pc["bg"] = "stale_check"
    /\ now >= StartTime + LOOP_WAIT_SECONDS
    /\ batch_seq = 0

\* C36: the cache is None or a mapping with at least one location.
C36_CacheNeverEmptyMapping ==
    data_cache # None => DOMAIN data_cache[1] # {}

\* C36 witness: refresh_cache has returned False after a batch fetch that
\* brought nothing, beside a cache that is still None.
C36_Witness ==
    /\ last_return = Returned("refresh", None, FALSE)
    /\ batch_seq > 0
    /\ data_cache = None
    /\ pc["http"] = "idle"

---------------------------------------------------------------------------
(* Properties of the batch fetch *)

\* A fetch that failed: a timeout, an HTTP error status.
FetchFailed(l) == b_outcome[l] \in {"timeout", "http_error"}

\* C6: the dict _fetch_data_in_batches returns has keys among those of
\* locations and none whose fetch failed; every call for a failed fetch ended by
\* returning False; with one HTTP error among three locations the result holds
\* exactly the other two.
C6_SubsetWithoutFailures ==
    b_result # None =>
        /\ DOMAIN b_result[1] \subseteq b_locations
        /\ \A l \in b_locations :
              FetchFailed(l) => (l \notin DOMAIN b_result[1] /\ task[l] = "done_false")
        /\ \A bad \in b_locations :
              (/\ b_locations = BatchLocations
               /\ b_outcome[bad] = "http_error"
               /\ \A l \in b_locations \ {bad} : b_outcome[l] = "ok")
                  => DOMAIN b_result[1] = b_locations \ {bad}

\* C6 witness: a batch of three locations, one answered with an HTTP error, has
\* returned.
C6_Witness ==
    /\ b_result # None
    /\ b_locations = BatchLocations
    /\ \E bad \in b_locations :
          /\ b_outcome[bad] = "http_error"
          /\ \A l \in b_locations \ {bad} : b_outcome[l] = "ok"

\* C7: the returned dict holds, for exactly the locations whose fetch returned
\* a record, that record: no store is lost, whatever the workers' interleaving.
C7_NoLostUpdate ==
    b_result # None =>
        b_result[1] = [l \in {k \in b_locations : b_outcome[k] = "ok"} |->
                          Rec(l, BatchCycle)]

\* C7 witness: three workers have each stored a record and the batch returned.
C7_Witness ==
    /\ b_result # None
    /\ \A l \in BatchLocations : l \in b_locations /\ task[l] = "done_true"

\* C19: never are more than 10 single-location fetches in flight in a batch.
C19_AtMostTenInFlight == p_running <= 10

\* C19 witness: ten fetches are in flight while further locations wait.
C19_Witness == p_running = 10 /\ Queued > 0

\* C20: with every single-location fetch ending, _fetch_data_in_batches
\* returns, and what it returns holds every location whose fetch succeeded,
\* whatever the other locations did.
C20_BatchTerminates ==
    <>(b_result # None
         /\ DOMAIN b_result[1] = {l \in b_locations : b_outcome[l] = "ok"})

\* C20 witness: a batch with a timed-out location has returned the record of
\* another location.
C20_Witness ==
    /\ b_result # None
    /\ \E l \in b_locations : b_outcome[l] = "timeout"
    /\ DOMAIN b_result[1] # {}

---------------------------------------------------------------------------
(* Properties of the single-location fetch *)

\* The provider did not answer with a decodable body.
ProviderFailed == f_reply.kind \in {"timeout", "http_error", "not_json"}

\* A WeatherRecord as the spec has it: an object whose hourly object has a time
\* list, every parameter of it a list as long as time.
Aligned(body) ==
    /\ body.type = "object"
    /\ body.hourly_kind = "dict"
    /\ "time" \in DOMAIN body.hourly
    /\ \A q \in DOMAIN body.hourly :
          /\ body.hourly[q].list
          /\ Len(body.hourly[q].values) = Len(body.hourly["time"].values)

\* C15: a call of _fetch_live_weather_data never ends by raising; when the
\* coordinates cannot be unpacked, the request times out, the status is an
\* error or the body is not JSON or not of a shape the cleaning can walk, it
\* returns None.
C15_NeverRaises ==
    f_pc = "done" =>
        /\ ~ f_result[1].raised
        /\ (UnpackRaises(f_coordinates) # "no" \/ ProviderFailed)
              => f_result[1].value = None
        /\ f_result[1].value # None => f_reply.kind = "json"

\* C15 witness: a call given three coordinates has ended, returning None.
C15_Witness ==
    /\ f_pc = "done"
    /\ f_coordinates.kind = "list"
    /\ Len(f_coordinates.items) = 3
    /\ f_result = Ended(FALSE, None)

\* C16 (as claimed): a location given as an object with latitude and longitude
\* is requested with that latitude and that longitude, as the same location
\* given as a pair is.
C16_BothEncodingsSameRequest ==
    (f_pc = "done" /\ f_coordinates.kind = "dict")
        => f_request = Some([latitude |-> f_coordinates.items[1],
                             longitude |-> f_coordinates.items[2]])

\* C17 (as claimed): what a call returns for caching (a truthy value, which
\* fetch_location_data stores) is a record with aligned hourly series.
C17_CachedRecordsAligned ==
    (f_pc = "done" /\ f_result[1].value # None /\ BodyTruthy(f_result[1].value[1]))
        => Aligned(f_result[1].value[1])

---------------------------------------------------------------------------
(* Properties of the handlers *)

\* C12 (as claimed): handling POST /api/data/update starts a refresh on the data
\* manager, and the success flag of the response tells whether the cache holds a
\* snapshot of that refresh.
C12_UpdateTriggersRefresh ==
    [][ (n_requests' # n_requests /\ response'[1].handler = "force_data_update")
            => /\ batch_seq' = batch_seq + 1
               /\ response'[1].reply.success
                      = (data_cache' # None /\ data_cache' # data_cache)
      ]_vars

---------------------------------------------------------------------------
(* Properties of the update loops *)

\* C22 (as claimed): at most one update thread is alive at any time, whatever
\* the sequence of start_data_manager and stop_data_manager calls, a stop whose
\* join timed out included.
C22_AtMostOneLoopAlive == Cardinality({t \in ThreadIds : Alive(t)}) <= 1

\* C23: once should_stop is set for a thread's manager, the thread enters no
\* further pass of the loop body, and it ends; it needs no time to pass for
\* that, the wait it may be in returning on the event.
C23_StopEndsTheLoop ==
    /\ [][\A t \in ThreadIds :
              StopSet(t) => ~ (loop_pc[t] = "top" /\ loop_pc'[t] = "cycle")]_vars
    /\ \A t \in ThreadIds : (Alive(t) /\ StopSet(t)) ~> (loop_pc[t] = "exited")

\* C23 witness: a thread has ended after its 10-minute wait was cut short with
\* the whole timeout left.
C23_Witness ==
    \E t \in ThreadIds :
        /\ loop_pc[t] = "exited"
        /\ StopSet(t)
        /\ loop_wait[t] = LOOP_WAIT_SECONDS
        /\ loop_remaining[t] = LOOP_WAIT_SECONDS

\* C24: an update thread ends only with should_stop set, whatever went wrong
\* in its passes; and as long as it has not ended it comes to a further pass
\* again and again.
C24_LoopEndsOnlyOnStop ==
    /\ [][\A t \in ThreadIds :
              (loop_pc[t] # "exited" /\ loop_pc'[t] = "exited") => StopSet(t)]_vars
    /\ \A t \in ThreadIds : []<>(loop_pc[t] \in {"unborn", "cycle", "exited"})

\* C24 witness: a thread is in a further pass after one that let an exception
\* escape to the outer handler.
C24_Witness ==
    \E t \in ThreadIds :
        /\ loop_pc[t] = "cycle"
        /\ loop_outcome[t] = "escaped"
        /\ ~ StopSet(t)

\* C25 (as claimed): a pass in which something went wrong (the provider was
\* unreachable, the update or the refresh failed, an exception escaped) is
\* followed by a wait of 5 minutes.
C25_ErrorWaitsFiveMinutes ==
    [][\A t \in ThreadIds :
           (loop_pc[t] = "cycle" /\ loop_pc'[t] = "wait"
              /\ loop_outcome'[t] # "quiet")
           => loop_wait'[t] = ERROR_WAIT_SECONDS]_vars

\* C26: a thread tests staleness before every wait, the first included, and
\* once between two wakes; the wait that follows a pass that raised nothing to
\* the outer handler is of 600 seconds whatever the pass did.
C26_CheckThenFixedWait ==
    [][\A t \in ThreadIds :
           /\ (loop_pc[t] = "cycle" /\ loop_pc'[t] # "cycle")
                 => (~ loop_checked[t] /\ loop_checked'[t])
           /\ (loop_pc[t] # "wait" /\ loop_pc'[t] = "wait")
                 => /\ loop_checked'[t]
                    /\ loop_outcome'[t] # "escaped"
                          => /\ loop_wait'[t] = LOOP_WAIT_SECONDS
                             /\ loop_remaining'[t] = LOOP_WAIT_SECONDS]_vars

\* C26 witness: a thread whose refresh found the provider unreachable is
\* half-way through its 600-second wait.
C26_Witness ==
    \E t \in ThreadIds :
        /\ loop_pc[t] = "wait"
        /\ loop_outcome[t] = "provider_unreachable"
        /\ loop_wait[t] = LOOP_WAIT_SECONDS
        /\ loop_remaining[t] = LOOP_WAIT_SECONDS - WaitTick

\* C34 (as claimed): a manager on which start_background_updates has
\* returned, and no stop was called since, has an update thread that is alive
\* and not signalled to stop.
C34_StartLeavesALiveLoop ==
    \A m \in ManagerIds :
        started[m] => /\ update_thread[m] # 0
                      /\ Alive(update_thread[m])
                      /\ ~ should_stop[m]

\* C38 (as claimed): the manager the application's handlers read from is the
\* global manager, the one start_data_manager starts the loop of.
C38_HandlersReadTheGlobalManager ==
    (app_manager # 0 /\ data_manager # 0) => app_manager = data_manager

---------------------------------------------------------------------------
(* Properties of the returned objects *)

\* C21 (as claimed): what readers find in the cache changes only when a
\* refresh stores a mapping there: a step that leaves self._data_cache naming
\* the same object, as a caller changing the mapping it was returned does,
\* leaves the cache's contents as they were.
C21_CallerCannotChangeCache ==
    [][r_cache' = r_cache => CacheContents' = CacheContents]_vars

---------------------------------------------------------------------------
(* Properties of the batch updater *)

\* C29 (as claimed): the object the updater writes to output_data.json has
\* one key per location of geolocations.json, and each of its values has an
\* hourly member, whatever the provider answered.
C29_SnapshotCompleteWithHourly ==
    u_file # None =>
        /\ DOMAIN u_file[1] = u_data
        /\ \A city \in u_data : "hourly" \in u_file[1][city]

---------------------------------------------------------------------------
(* Properties of the status queries and the weekly check *)

\* C32 (as claimed): _last_update_check changes only in a step in which the
\* update loop runs _perform_update: a status query or the startup event
\* leaves it as it is, so that no elapsed interval goes without its update.
C32_OnlyTheLoopConsumesTheInterval ==
    [][last_update_check' # last_update_check => n_updates' = n_updates + 1]_vars

\* C33 (as claimed): a pass of the update loop that follows a _perform_update
\* which returned False runs _perform_update again.
C33_FailedUpdateIsRetried ==
    [][(pc["bg"] = "top" /\ pc'["bg"] = "wait" /\ update_result = "failed")
          => n_updates' = n_updates + 1]_vars

\* C37 (as claimed): the dict a get_status call returns has cache_fresh true
\* only beside a cached snapshot younger than 15 minutes; beside an empty cache
\* it has has_cache false, cached_locations 0 and cache_fresh false.
C37_FreshOnlyWithYoungSnapshot ==
    [][status' # status =>
          /\ status'[1].cache_fresh
                => /\ data_cache # None
                   /\ now - cache_timestamp < FRESH_MINUTES * 60
          /\ data_cache = None
                => /\ ~ status'[1].has_cache
                   /\ status'[1].cached_locations = 0
                   /\ ~ status'[1].cache_fresh]_vars

---------------------------------------------------------------------------
(* Properties of the simple app *)

\* C39: the limit the handler works with is 1 for a requested limit below 1,
\* 100 for one above 100 and the requested limit otherwise; never has the call
\* issued more provider requests than that, and the count it returns exceeds
\* neither that limit nor the number of locations.
C39_LimitClampedAndRespected ==
    LET clamped == IF app_limit < LIMIT_MIN THEN LIMIT_MIN
                   ELSE IF app_limit > LIMIT_MAX THEN LIMIT_MAX ELSE app_limit
    IN  /\ app_requests <= clamped
        /\ app_results <= app_requests
        /\ app_response # None
              => /\ app_response[1].limit = clamped
                 /\ app_response[1].count <= clamped
                 /\ app_response[1].count <= Len(app_locations)

\* C39 witness: a request with limit 0 has been answered with limit 1 and one
\* record, out of three locations.
C39_Witness ==
    /\ app_limit = 0
    /\ app_response # None
    /\ app_response[1].status_code = 200
    /\ app_response[1].limit = 1
    /\ app_response[1].count = 1
    /\ app_requests = 1
    /\ Len(app_locations) = 3

=============================================================================
